---- MODULE Spec2Model ----
(***************************************************************************)
(* A model of bingrep's reports (src/src/main.rs).  Of Elf::fmt: the       *)
(* program header listing, the symbol table listing with its section-index *)
(* cell, the relocation listing, and the pattern search and match          *)
(* correlation at its end.  Of Mach-O: MachO::fmt and the loop of run over *)
(* the architectures of a fat file.                                        *)
(*                                                                         *)
(* Output is modelled as the sequence of lines (or table rows) written,    *)
(* each line keeping the text of the fields the report formats.  A panic   *)
(* (index out of range, arithmetic overflow with overflow checks on) ends  *)
(* the run in pc = "panic" with the output written so far.                 *)
(***************************************************************************)
EXTENDS Integers, Sequences, FiniteSets, TLC

(***************************************************************************)
(* Bounds of the model.                                                    *)
(***************************************************************************)
\* u64 and usize are modelled as WordBits-bit unsigned integers.
WordBits == 3
\* longest file (bytes) searched
MaxLen == 3
\* longest search pattern (bytes)
MaxNeedle == 2
\* most program headers / section headers in the correlation runs
MaxPhdrs == 2
MaxShdrs == 2
\* most entries of elf.syms / elf.dynsyms in the symbol listing runs
MaxSyms == 2
MaxDynSyms == 1
\* most relocations in one section's relocation list, in the relocation runs
MaxRelocs == 2
\* most segments of a Mach-O binary, most architectures of a fat file
MaxSegments == 2
MaxArches == 3

\* the section index of an absolute symbol, 0xfff1
SHN_ABS == 65521
\* sym::STT_FUNC, sym::STT_SECTION
STT_FUNC == 2
STT_SECTION == 3

Modulus == 2 ^ WordBits
UMax == Modulus - 1

SeqsUpTo(S, n) == UNION {[1..len -> S] : len \in 0..n}

(***************************************************************************)
(* Formatting: format!("{:x}"), format!("{:#x}") on unsigned integers.     *)
(***************************************************************************)
HexDigit == <<"0", "1", "2", "3", "4", "5", "6", "7",
              "8", "9", "a", "b", "c", "d", "e", "f">>

RECURSIVE LowerHex(_)
LowerHex(n) ==
    IF n < 16 THEN HexDigit[n + 1]
    ELSE LowerHex(n \div 16) \o HexDigit[(n % 16) + 1]

AltHex(n) == "0x" \o LowerHex(n)

\* the complement of n in `digits` hex digits: each digit d of n becomes 15 - d
RECURSIVE HexComplement(_, _)
HexComplement(n, digits) ==
    IF digits = 0 THEN ""
    ELSE HexComplement(n \div 16, digits - 1) \o HexDigit[(15 - (n % 16)) + 1]

\* format!("{}", n) on an unsigned integer
RECURSIVE Decimal(_)
Decimal(n) ==
    IF n < 10 THEN HexDigit[n + 1]
    ELSE Decimal(n \div 10) \o HexDigit[(n % 10) + 1]

(***************************************************************************)
(* u64 addition: the sum as the machine computes it, and whether it        *)
(* overflowed.  With overflow checks (debug profile) an overflowing `+`    *)
(* panics, without them (release profile) it wraps.                        *)
(***************************************************************************)
u64_add(a, b) == [val |-> (a + b) % Modulus, ovf |-> a + b >= Modulus]

(***************************************************************************)
(* The closure `normalize` of Elf::fmt:                                    *)
(*     (offset as u64 - base_offset) + base                                *)
(* It is only called with offset >= base_offset.                           *)
(***************************************************************************)
normalize(offset, base_offset, base) == u64_add(offset - base_offset, base)

(***************************************************************************)
(* The containment test of the correlation loops,                          *)
(*     offset >= file_offset && offset < (file_offset + file_size)         *)
(* with && short-circuiting: the sum is only computed when the first       *)
(* conjunct holds.  The result is "panic" when the sum overflows under     *)
(* overflow checks, else "in" or "out".                                    *)
(***************************************************************************)
range_test(offset, file_offset, file_size, checks) ==
    IF offset >= file_offset
    THEN LET end == u64_add(file_offset, file_size) IN
         IF end.ovf /\ checks THEN "panic"
         ELSE IF offset < end.val THEN "in" ELSE "out"
    ELSE "out"

(***************************************************************************)
(* str::from_utf8, as used by scroll's pread_slice::<str>: whether a byte  *)
(* sequence is well-formed UTF-8.                                          *)
(***************************************************************************)
InByteRange(b, lo, hi) == b >= lo /\ b <= hi

RECURSIVE from_utf8(_)
from_utf8(bs) ==
    IF bs = <<>> THEN TRUE
    ELSE LET b == bs[1]
             n == Len(bs)
         IN  IF b < 128 THEN from_utf8(Tail(bs))
             ELSE IF InByteRange(b, 194, 223)
             THEN /\ n >= 2
                  /\ InByteRange(bs[2], 128, 191)
                  /\ from_utf8(SubSeq(bs, 3, n))
             ELSE IF InByteRange(b, 224, 239)
             THEN /\ n >= 3
                  /\ InByteRange(bs[2], IF b = 224 THEN 160 ELSE 128,
                                        IF b = 237 THEN 159 ELSE 191)
                  /\ InByteRange(bs[3], 128, 191)
                  /\ from_utf8(SubSeq(bs, 4, n))
             ELSE IF InByteRange(b, 240, 244)
             THEN /\ n >= 4
                  /\ InByteRange(bs[2], IF b = 240 THEN 144 ELSE 128,
                                        IF b = 244 THEN 143 ELSE 191)
                  /\ InByteRange(bs[3], 128, 191)
                  /\ InByteRange(bs[4], 128, 191)
                  /\ from_utf8(SubSeq(bs, 5, n))
             ELSE FALSE

(***************************************************************************)
(* self.bytes.pread_slice::<str>(i, search.len()): Ok(the slice) when      *)
(* i + count is within the buffer and the slice is UTF-8, else Err.        *)
(* Ok(s) is modelled as <<s>>, Err as <<>>.                                *)
(***************************************************************************)
pread_slice_short(b, offset, count) ==
    IF offset + count >= Len(b) THEN <<>>
    ELSE LET s == SubSeq(b, offset + 1, offset + count) IN
         IF from_utf8(s) THEN <<s>> ELSE <<>>

pread_slice(b, offset, count) ==
    IF offset + count > Len(b) THEN <<>>
    ELSE LET s == SubSeq(b, offset + 1, offset + count) IN
         IF from_utf8(s) THEN <<s>> ELSE <<>>

(***************************************************************************)
(* State.                                                                  *)
(***************************************************************************)
VARIABLES
    bytes,            \* Elf.bytes: the file's bytes
    search,           \* opt.search: <<>> is None, <<s>> is Some(s), s a byte string
    phdrs,            \* elf.program_headers
    section_headers,  \* elf.section_headers, sh_name resolved through shdr_strtab
    overflow_checks,  \* whether the build panics on integer overflow
    pointer_width,    \* the build's target_pointer_width: the bits of isize
    end_offset_panics, \* whether the build's scroll rejects an offset equal to the length
    pretty,           \* opt.pretty
    syms,             \* elf.syms
    dynsyms,          \* elf.dynsyms
    strtab,           \* elf.strtab
    dynstrtab,        \* elf.dynstrtab
    dynrelas,         \* elf.dynrelas
    dynrels,          \* elf.dynrels
    pltrelocs,        \* elf.pltrelocs
    shdr_relocs,      \* elf.shdr_relocs: (section index, relocations) pairs
    arches,           \* a fat Mach-O: the result of multi.get(i) for each architecture
    pc,               \* position in the report
    i,                \* the search loop's index; the architecture loop's index
    matches,          \* the search loop's Vec of match offsets
    mi,               \* number of match offsets already correlated
    g,                \* number of shdr_relocs pairs, or of segments, already listed
    k,                \* number of table entries already visited by the inner loop
    out               \* lines written to the formatter, in order

vars == <<bytes, search, phdrs, section_headers, overflow_checks, pointer_width,
          end_offset_panics,
          pretty, syms, dynsyms, strtab, dynstrtab,
          dynrelas, dynrels, pltrelocs, shdr_relocs, arches,
          pc, i, matches, mi, g, k, out>>

\* what the report reads and never changes
inputs == <<bytes, search, phdrs, section_headers, overflow_checks, pointer_width,
          end_offset_panics,
            pretty, syms, dynsyms, strtab, dynstrtab,
            dynrelas, dynrels, pltrelocs, shdr_relocs, arches>>

\* A line or table row of the output: what it is, the index it shows, its text and,
\* for a symbol row, the text of its section field.
Row(tag, idx, text, section) ==
    [tag |-> tag, idx |-> idx, text |-> text, section |-> section]

Line(tag, idx, text) == Row(tag, idx, text, "")

(***************************************************************************)
(* Inputs.                                                                 *)
(***************************************************************************)
\* 'a', and the two bytes of U+00E9: a lead byte and a continuation byte.
ByteVals == {97, 195, 169}

Haystacks == SeqsUpTo(ByteVals, MaxLen)

\* A search pattern is a Rust String: any well-formed UTF-8, the empty one included.
Needles == {n \in SeqsUpTo(ByteVals, MaxNeedle) : from_utf8(n)}

Searches == {<<>>} \cup {<<n>> : n \in Needles}

Phdr(off, filesz, vaddr) == [p_offset |-> off, p_filesz |-> filesz, p_vaddr |-> vaddr]

Shdr(name, off, size, addr) ==
    [sh_name |-> name, sh_offset |-> off, sh_size |-> size, sh_addr |-> addr,
     sh_info |-> 0]

(***************************************************************************)
(* elf.section_headers (a Vec<SectionHeader>) is kept as a sequence of     *)
(* runs [count, shdr]: `count` consecutive entries equal to `shdr`.  A     *)
(* table built from distinct headers has runs of count 1; a table of       *)
(* e_shnum equal headers is one run.  shdrs_len is Vec::len, shdrs_at is   *)
(* the entry at a 0-based index below the length.                          *)
(***************************************************************************)
Table(hdrs) == [j \in 1..Len(hdrs) |-> [count |-> 1, shdr |-> hdrs[j]]]

RECURSIVE shdrs_len(_)
shdrs_len(t) == IF t = <<>> THEN 0 ELSE t[1].count + shdrs_len(Tail(t))

RECURSIVE shdrs_at(_, _)
shdrs_at(t, idx) ==
    IF idx < t[1].count THEN t[1].shdr ELSE shdrs_at(Tail(t), idx - t[1].count)

\* Program headers: empty, plain, with an end bound past the word, with an
\* address at the top of the word, nested.
PhdrShapes ==
    { Phdr(0, 0, 1), Phdr(0, 2, 1), Phdr(1, UMax, 1), Phdr(0, 2, UMax), Phdr(1, 1, 2) }

ShdrShapes ==
    { Shdr(".text", 1, 1, 2), Shdr(".data", 1, UMax, 0), Shdr(".bss", 2, 0, 3) }

(***************************************************************************)
(* The search and correlation part of Elf::fmt (`match self.opt.search`).  *)
(***************************************************************************)
\* match self.opt.search { Some(..) => .., None => () }
MatchSearch ==
    /\ pc = "search"
    /\ IF search = <<>>
       THEN pc' = "done"
       ELSE pc' = "scan"
    /\ UNCHANGED <<inputs, g, i, matches, mi, k, out>>

\* one iteration of `for i in 0..self.bytes.len()`
ScanStep ==
    /\ pc = "scan"
    /\ i < Len(bytes)
    /\ LET res == pread_slice(bytes, i, Len(search[1])) IN
         matches' = IF res # <<>> /\ res[1] = search[1]
                    THEN Append(matches, i)
                    ELSE matches
    /\ i' = i + 1
    /\ UNCHANGED <<inputs, pc, mi, g, k, out>>

\* the loop is over: writeln!(fmt)?; writeln!(fmt, "Matches for {:?}:", search)?
ScanEnd ==
    /\ pc = "scan"
    /\ i = Len(bytes)
    /\ out' = out \o << Line("blank", 0, ""), Line("matches_for", 0, "Matches for") >>
    /\ pc' = "offset"
    /\ UNCHANGED <<inputs, g, i, matches, mi, k>>

\* `for offset in matches`: writeln!(fmt, "  {:#x}", offset)?, or the end of the loop
OffsetStep ==
    /\ pc = "offset"
    /\ IF mi < Len(matches)
       THEN /\ out' = Append(out, Line("offset", 0, AltHex(matches[mi + 1])))
            /\ pc' = "phdrs"
            /\ k' = 0
       ELSE /\ pc' = "done"
            /\ UNCHANGED <<out, k>>
    /\ UNCHANGED <<inputs, g, i, matches, mi>>

(***************************************************************************)
(* One iteration of a correlation loop over a header table: the            *)
(* containment test, then normalize and the line written.                  *)
(***************************************************************************)
Correlate(tag, offset, file_offset, file_size, vaddr) ==
    LET t == range_test(offset, file_offset, file_size, overflow_checks)
        a == normalize(offset, file_offset, vaddr)
    IN  IF t = "panic" \/ (t = "in" /\ a.ovf /\ overflow_checks)
        THEN /\ pc' = "panic"
             /\ UNCHANGED <<out, k>>
        ELSE /\ out' = IF t = "in"
                       THEN Append(out, Line(tag, k, AltHex(a.val)))
                       ELSE out
             /\ k' = k + 1
             /\ UNCHANGED pc

\* `for (i, phdr) in phdrs.into_iter().enumerate()`
PhdrStep ==
    /\ pc = "phdrs"
    /\ k < Len(phdrs)
    /\ LET phdr == phdrs[k + 1] IN
         Correlate("phdr", matches[mi + 1], phdr.p_offset, phdr.p_filesz, phdr.p_vaddr)
    /\ UNCHANGED <<inputs, g, i, matches, mi>>

PhdrEnd ==
    /\ pc = "phdrs"
    /\ k = Len(phdrs)
    /\ pc' = "shdrs"
    /\ k' = 0
    /\ UNCHANGED <<inputs, g, i, matches, mi, out>>

\* `for (i, shdr) in (&self.elf.section_headers).into_iter().enumerate()`
ShdrStep ==
    /\ pc = "shdrs"
    /\ k < shdrs_len(section_headers)
    /\ LET shdr == shdrs_at(section_headers, k) IN
         Correlate("shdr", matches[mi + 1], shdr.sh_offset, shdr.sh_size, shdr.sh_addr)
    /\ UNCHANGED <<inputs, g, i, matches, mi>>

ShdrEnd ==
    /\ pc = "shdrs"
    /\ k = shdrs_len(section_headers)
    /\ pc' = "offset"
    /\ mi' = mi + 1
    /\ UNCHANGED <<inputs, g, i, matches, k, out>>

NextSearch ==
    \/ MatchSearch
    \/ ScanStep
    \/ ScanEnd
    \/ OffsetStep
    \/ PhdrStep
    \/ PhdrEnd
    \/ ShdrStep
    \/ ShdrEnd

\* a file that is no fat Mach-O
NoMach == arches = <<>>

\* a report that formats no isize: the width of isize does not show
NoIsize == pointer_width = 64

\* a report that reads no name at the end of a string table
NoEndOffset == end_offset_panics = FALSE

\* a file without relocations
NoRelocs ==
    /\ dynrelas = <<>>
    /\ dynrels = <<>>
    /\ pltrelocs = <<>>
    /\ shdr_relocs = <<>>

\* a run that lists no symbols
NoSymbols ==
    /\ pretty = FALSE
    /\ syms = <<>>
    /\ dynsyms = <<>>
    /\ strtab = <<>>
    /\ dynstrtab = <<>>
    /\ NoRelocs

InitLocals ==
    /\ i = 0
    /\ matches = <<>>
    /\ mi = 0
    /\ g = 0
    /\ k = 0
    /\ out = <<>>

\* The search over every file and pattern, on a file with one segment and one section.
InitSearch ==
    /\ bytes \in Haystacks
    /\ search \in Searches
    /\ phdrs = << Phdr(0, 2, 1) >>
    /\ section_headers = Table(<< Shdr(".text", 1, 1, 2) >>)
    /\ overflow_checks \in BOOLEAN
    /\ NoSymbols
    /\ pc = "search"
    /\ NoMach
    /\ NoIsize
    /\ NoEndOffset
    /\ InitLocals

SpecSearch == InitSearch /\ [][NextSearch]_vars

\* The correlation over every header table, on files of one repeated byte.
InitCorrelate ==
    /\ bytes \in SeqsUpTo({97}, MaxLen)
    /\ search \in {<<>>} \cup {<<n>> : n \in Needles \ {<<>>}}
    /\ phdrs \in SeqsUpTo(PhdrShapes, MaxPhdrs)
    /\ section_headers \in {Table(hdrs) : hdrs \in SeqsUpTo(ShdrShapes, MaxShdrs)}
    /\ overflow_checks \in BOOLEAN
    /\ NoSymbols
    /\ pc = "search"
    /\ NoMach
    /\ NoIsize
    /\ NoEndOffset
    /\ InitLocals

SpecCorrelate == InitCorrelate /\ [][NextSearch]_vars

(***************************************************************************)
(* Indexing a table the way Vec's Index does: the entry, or a panic when   *)
(* the index is not below the length.  Some(e) is <<e>>, a panic is <<>>.  *)
(***************************************************************************)
shdrs_index(t, idx) == IF idx < shdrs_len(t) THEN << shdrs_at(t, idx) >> ELSE <<>>

vec_index(v, idx) == IF idx < Len(v) THEN << v[idx + 1] >> ELSE <<>>

(***************************************************************************)
(* A string table: a sequence of characters in which "" stands for the NUL *)
(* byte and InvalidByte for a byte that is not UTF-8.  strtab[offset] is   *)
(* the string from offset up to the next NUL or the end of the table.  It  *)
(* panics for an offset past the end of the table (BadOffset), for an      *)
(* offset equal to the length where the build's scroll tests offset >=     *)
(* len, and for a string that is not UTF-8.  strtab_get is <<s>> for the   *)
(* string s, <<>> for the panic.                                           *)
(***************************************************************************)
InvalidByte == "<ff>"

RECURSIVE strtab_read(_, _)
strtab_read(tab, offset) ==
    IF offset >= Len(tab) \/ tab[offset + 1] = "" THEN ""
    ELSE tab[offset + 1] \o strtab_read(tab, offset + 1)

\* whether the bytes from offset up to the next NUL are UTF-8
RECURSIVE strtab_utf8(_, _)
strtab_utf8(tab, offset) ==
    IF offset >= Len(tab) \/ tab[offset + 1] = "" THEN TRUE
    ELSE tab[offset + 1] # InvalidByte /\ strtab_utf8(tab, offset + 1)

strtab_get(tab, offset) ==
    IF offset > Len(tab) \/ (offset = Len(tab) /\ end_offset_panics) THEN <<>>
    ELSE IF ~strtab_utf8(tab, offset) THEN <<>>
    ELSE << strtab_read(tab, offset) >>

(***************************************************************************)
(* Cells of a pretty table.  A cell is its text; Panicked stands for a     *)
(* panic while the cell was being built.                                   *)
(***************************************************************************)
Cell(text) == [ok |-> TRUE, text |-> text]
Panicked == [ok |-> FALSE, text |-> ""]

\* string_cell (opt.demangle off): the empty cell for the empty string, else the string
string_cell(str) == IF str = "" THEN Cell("") ELSE Cell(str)

\* shndx_cell(idx, shdrs, strtab), the section names already read through strtab
shndx_cell(idx, shdrs) ==
    IF idx >= shdrs_len(shdrs)
    THEN IF idx = SHN_ABS THEN Cell("ABS")
         ELSE Cell("BAD_IDX=" \o Decimal(idx))
    ELSE IF idx # 0
    THEN LET shdr == shdrs_index(shdrs, idx) IN
         IF shdr = <<>> THEN Panicked
         ELSE Cell(shdr[1].sh_name \o "(" \o Decimal(idx) \o ")")
    ELSE Cell("")

(***************************************************************************)
(* The closure fmt_syms of Elf::fmt, called for ("Syms", elf.syms,         *)
(* elf.strtab) and then for ("Dyn Syms", elf.dynsyms, elf.dynstrtab).      *)
(***************************************************************************)
Sym(name, type, shndx) == [st_name |-> name, st_type |-> type, st_shndx |-> shndx]

\* fmt_header(fmt, name, syms.len())
FmtSymsHeader(name, table, rows) ==
    /\ pc = name
    /\ out' = Append(out, Line("header", Len(table), name))
    /\ pc' = rows
    /\ k' = 0
    /\ UNCHANGED <<inputs, g, i, matches, mi>>

\* one iteration of `for sym in syms`: a table row (pretty) or a line.  The rows of
\* the pretty table are printed after the loop: a panic in the loop loses them.  A
\* plain line is written field by field: a panic at strtab[sym.st_name] leaves the
\* fields before the name.
FmtSymsRow(rows, table, tab) ==
    /\ pc = rows
    /\ k < Len(table)
    /\ LET sym == table[k + 1]
           name == strtab_get(tab, sym.st_name)
           section == shndx_cell(sym.st_shndx, section_headers)
       IN  IF pretty
           THEN IF name # <<>> /\ section.ok
                THEN /\ out' = Append(out, Row(rows, k, string_cell(name[1]).text,
                                               section.text))
                     /\ k' = k + 1
                     /\ UNCHANGED pc
                ELSE /\ out' = SelectSeq(out, LAMBDA l : l.tag # rows)
                     /\ pc' = "panic"
                     /\ UNCHANGED k
           ELSE IF name # <<>>
                THEN /\ out' = Append(out, Row(rows, k, name[1], AltHex(sym.st_shndx)))
                     /\ k' = k + 1
                     /\ UNCHANGED pc
                ELSE /\ out' = Append(out, Line("st_value", k, ""))
                     /\ pc' = "panic"
                     /\ UNCHANGED k
    /\ UNCHANGED <<inputs, g, i, matches, mi>>

\* the loop is over: writeln!(fmt, "")
FmtSymsEnd(rows, table, then) ==
    /\ pc = rows
    /\ k = Len(table)
    /\ out' = Append(out, Line("blank", 0, ""))
    /\ pc' = then
    /\ UNCHANGED <<inputs, g, i, matches, mi, k>>

SymsHeader == FmtSymsHeader("Syms", syms, "Syms rows")
SymsRow == FmtSymsRow("Syms rows", syms, strtab)
SymsEnd == FmtSymsEnd("Syms rows", syms, "Dyn Syms")
DynSymsHeader == FmtSymsHeader("Dyn Syms", dynsyms, "Dyn Syms rows")
DynSymsRow == FmtSymsRow("Dyn Syms rows", dynsyms, dynstrtab)
DynSymsEnd == FmtSymsEnd("Dyn Syms rows", dynsyms, "Dynamic Relas")

NextSyms ==
    \/ SymsHeader
    \/ SymsRow
    \/ SymsEnd
    \/ DynSymsHeader
    \/ DynSymsRow
    \/ DynSymsEnd

\* "\0fn\0": the empty string at offsets 0 and 3, "fn" at 1, "n" at 2
StrtabFn == <<"", "f", "n", "">>
\* "\0io\0"
StrtabIo == <<"", "i", "o", "">>

SymShapes ==
    { Sym(1, STT_FUNC, 1), Sym(1, STT_FUNC, 0), Sym(1, STT_FUNC, SHN_ABS),
      Sym(0, STT_SECTION, 1), Sym(0, STT_SECTION, 2), Sym(3, STT_SECTION, 2) }

\* "\0io\0", a byte that is not UTF-8, "\0"
StrtabInvalid == <<"", "i", "o", "", InvalidByte, "">>

\* the dynamic symbols: a function, an undefined function, a nameless section symbol,
\* and symbols whose name is not UTF-8, starts at the end of the table, or past it
DynSymShapes ==
    { Sym(1, STT_FUNC, 1), Sym(1, STT_FUNC, 0), Sym(0, STT_SECTION, 2),
      Sym(4, STT_FUNC, 1), Sym(6, STT_FUNC, 1), Sym(7, STT_FUNC, 1) }

\* a table of SHN_ABS + 1 sections (e_shnum = 0xfff2), all named ".s"
ManySections == << [count |-> SHN_ABS + 1, shdr |-> Shdr(".s", 0, 0, 0)] >>

SectionTables ==
    {Table(hdrs) : hdrs \in SeqsUpTo(ShdrShapes, MaxShdrs)} \cup {ManySections}

\* a run that searches nothing
NoSearch ==
    /\ bytes = <<>>
    /\ search = <<>>
    /\ phdrs = <<>>
    /\ overflow_checks = FALSE

InitSyms ==
    /\ NoSearch
    /\ section_headers \in SectionTables
    /\ pretty \in BOOLEAN
    /\ syms \in SeqsUpTo(SymShapes, MaxSyms)
    /\ dynsyms \in SeqsUpTo(DynSymShapes, MaxDynSyms)
    /\ strtab = StrtabFn
    /\ dynstrtab = StrtabInvalid
    /\ NoRelocs
    /\ pc = "Syms"
    /\ NoMach
    /\ NoIsize
    /\ end_offset_panics \in BOOLEAN
    /\ InitLocals

SpecSyms == InitSyms /\ [][NextSyms]_vars

(***************************************************************************)
(* The closure fmt_relocs of Elf::fmt, and the relocation part of the      *)
(* report: "Dynamic Relas", "Dynamic Rel" and "Plt Relocations" against    *)
(* elf.dynsyms, then "Shdr Relocations" against elf.syms.                  *)
(***************************************************************************)
Reloc(sym, addend) == [r_sym |-> sym, r_addend |-> addend]

\* the name fmt_relocs shows for a relocation's symbol; section_headers[..] and
\* strtab[..] may panic
reloc_name(sym, shdrs, tab) ==
    IF sym.st_name = 0
    THEN IF sym.st_type = STT_SECTION
         THEN LET shdr == shdrs_index(shdrs, sym.st_shndx) IN
              IF shdr = <<>> THEN Panicked ELSE Cell(shdr[1].sh_name)
         ELSE Cell("ABS")
    ELSE LET name == strtab_get(tab, sym.st_name) IN
         IF name = <<>> THEN Panicked ELSE Cell(name[1])

\* format!("{:#x}", off) on an isize, as `offs` formats it: LowerHex of a signed
\* integer is the hex of its two's complement at the width of isize, which is the
\* target's pointer width.  For off < 0 that is the complement of -(off + 1) in all
\* the digits of the width: sixteen digits for 64 bits, eight for 32 bits.
offs(off) ==
    IF off >= 0 THEN AltHex(off)
    ELSE "0x" \o HexComplement(-(off + 1), pointer_width \div 4)

\* the addend suffix
reloc_addend(r_addend) == IF r_addend = 0 THEN "" ELSE "+" \o offs(r_addend)

\* one iteration of `for reloc in relocs`
FmtRelocsRow(rows, relocs, table, tab) ==
    /\ pc = rows
    /\ k < Len(relocs)
    /\ LET reloc == relocs[k + 1]
           sym == vec_index(table, reloc.r_sym)
       IN  IF sym = <<>>
           THEN \* &syms[reloc.r_sym] panics
                /\ pc' = "panic"
                /\ UNCHANGED <<out, k>>
           ELSE LET name == reloc_name(sym[1], section_headers, tab) IN
                IF name.ok
                THEN /\ out' = Append(out, Line(rows, k,
                                                name.text \o reloc_addend(reloc.r_addend)))
                     /\ k' = k + 1
                     /\ UNCHANGED pc
                ELSE \* r_offset is already written when the name is computed
                     /\ out' = Append(out, Line("r_offset", k, ""))
                     /\ pc' = "panic"
                     /\ UNCHANGED k
    /\ UNCHANGED <<inputs, g, i, matches, mi>>

\* the loop is over: writeln!(fmt, "")
FmtRelocsEnd(rows, relocs, then) ==
    /\ pc = rows
    /\ k = Len(relocs)
    /\ out' = Append(out, Line("blank", 0, ""))
    /\ pc' = then
    /\ UNCHANGED <<inputs, g, i, matches, mi, k>>

\* fmt_header(fmt, name, relocs.len())
RelocsHeader(name, relocs, rows) ==
    /\ pc = name
    /\ out' = Append(out, Line("header", Len(relocs), name))
    /\ pc' = rows
    /\ k' = 0
    /\ UNCHANGED <<inputs, g, i, matches, mi>>

DynRelasHeader == RelocsHeader("Dynamic Relas", dynrelas, "Dynamic Relas rows")
DynRelasRow == FmtRelocsRow("Dynamic Relas rows", dynrelas, dynsyms, dynstrtab)
DynRelasEnd == FmtRelocsEnd("Dynamic Relas rows", dynrelas, "Dynamic Rel")
DynRelsHeader == RelocsHeader("Dynamic Rel", dynrels, "Dynamic Rel rows")
DynRelsRow == FmtRelocsRow("Dynamic Rel rows", dynrels, dynsyms, dynstrtab)
DynRelsEnd == FmtRelocsEnd("Dynamic Rel rows", dynrels, "Plt Relocations")
PltRelocsHeader == RelocsHeader("Plt Relocations", pltrelocs, "Plt Relocations rows")
PltRelocsRow == FmtRelocsRow("Plt Relocations rows", pltrelocs, dynsyms, dynstrtab)
PltRelocsEnd == FmtRelocsEnd("Plt Relocations rows", pltrelocs, "Shdr Relocations")

\* the fold over shdr_relocs
RECURSIVE num_shdr_relocs(_)
num_shdr_relocs(pairs) ==
    IF pairs = <<>> THEN 0 ELSE Len(pairs[1].relocs) + num_shdr_relocs(Tail(pairs))

\* fmt_header(fmt, "Shdr Relocations", num_shdr_relocs) and `if num_shdr_relocs != 0`
ShdrRelocsHeader ==
    /\ pc = "Shdr Relocations"
    /\ out' = Append(out, Line("header", num_shdr_relocs(shdr_relocs), "Shdr Relocations"))
    /\ pc' = IF num_shdr_relocs(shdr_relocs) # 0 THEN "Shdr Relocations pairs" ELSE "Dynamic"
    /\ g' = 0
    /\ UNCHANGED <<inputs, i, matches, mi, k>>

\* one iteration of `for &(idx, ref relocs) in &self.elf.shdr_relocs`, up to fmt_relocs:
\* section_headers[idx], section_headers[shdr.sh_info], the line "  name(len)"
ShdrRelocsPair ==
    /\ pc = "Shdr Relocations pairs"
    /\ g < Len(shdr_relocs)
    /\ LET pair == shdr_relocs[g + 1]
           shdr == shdrs_index(section_headers, pair.idx)
           target == IF shdr = <<>> THEN <<>>
                     ELSE shdrs_index(section_headers, shdr[1].sh_info)
       IN  IF target = <<>>
           THEN /\ pc' = "panic"
                /\ UNCHANGED <<out, k>>
           ELSE /\ out' = Append(out, Line("relocated section", Len(pair.relocs),
                                           target[1].sh_name))
                /\ pc' = "Shdr Relocations rows"
                /\ k' = 0
    /\ UNCHANGED <<inputs, g, i, matches, mi>>

ShdrRelocsRow ==
    /\ g < Len(shdr_relocs)
    /\ FmtRelocsRow("Shdr Relocations rows", shdr_relocs[g + 1].relocs, syms, strtab)

ShdrRelocsRowsEnd ==
    /\ pc = "Shdr Relocations rows"
    /\ k = Len(shdr_relocs[g + 1].relocs)
    /\ out' = Append(out, Line("blank", 0, ""))
    /\ pc' = "Shdr Relocations pairs"
    /\ g' = g + 1
    /\ UNCHANGED <<inputs, i, matches, mi, k>>

\* the loop over the pairs is over: the report goes on with "Dynamic"
ShdrRelocsEnd ==
    /\ pc = "Shdr Relocations pairs"
    /\ g = Len(shdr_relocs)
    /\ pc' = "Dynamic"
    /\ UNCHANGED <<inputs, g, i, matches, mi, k, out>>

NextRelocs ==
    \/ DynRelasHeader
    \/ DynRelasRow
    \/ DynRelasEnd
    \/ DynRelsHeader
    \/ DynRelsRow
    \/ DynRelsEnd
    \/ PltRelocsHeader
    \/ PltRelocsRow
    \/ PltRelocsEnd
    \/ ShdrRelocsHeader
    \/ ShdrRelocsPair
    \/ ShdrRelocsRow
    \/ ShdrRelocsRowsEnd
    \/ ShdrRelocsEnd

\* addends: none, minus one, one, and one below -16^7
RelocShapes == { Reloc(0, 0), Reloc(0, -1), Reloc(1, 1), Reloc(0, -268435457) }

\* ".text" and its relocation section, whose sh_info names the section it applies to
RelaSection(info) == [Shdr(".rela.text", 0, 0, 0) EXCEPT !.sh_info = info]

RelocTables ==
    { Table(<< Shdr("", 0, 0, 0), Shdr(".text", 0, 2, 0), RelaSection(info) >>) :
          info \in {1, 3} }

\* the relocation sections goblin found: section 2 of the table, when it has relocations
ShdrRelocs ==
    {<<>>} \cup { << [idx |-> 2, relocs |-> rs] >> : rs \in SeqsUpTo(RelocShapes, MaxRelocs) }

\* the symbols relocations refer to.  fmt_syms has listed elf.syms and elf.dynsyms
\* before any relocation is listed, so every name offset is within its string table.
RelocSyms ==
    { Sym(1, STT_FUNC, 1), Sym(0, STT_FUNC, SHN_ABS), Sym(0, STT_SECTION, 1),
      Sym(0, STT_SECTION, SHN_ABS), Sym(0, STT_SECTION, 3), Sym(3, STT_SECTION, 1) }

InitRelocs ==
    /\ NoSearch
    /\ pretty = FALSE
    /\ section_headers \in RelocTables
    /\ syms \in SeqsUpTo(RelocSyms, 1)
    /\ dynsyms \in SeqsUpTo(RelocSyms, 1)
    /\ strtab = StrtabFn
    /\ dynstrtab = StrtabIo
    /\ dynrelas \in SeqsUpTo(RelocShapes, 1)
    /\ dynrels \in SeqsUpTo({Reloc(0, 0)}, 1)
    /\ pltrelocs \in SeqsUpTo({Reloc(0, 1)}, 1)
    /\ shdr_relocs \in ShdrRelocs
    /\ pc = "Dynamic Relas"
    /\ NoMach
    /\ pointer_width \in {32, 64}
    /\ NoEndOffset
    /\ InitLocals

SpecRelocs == InitRelocs /\ [][NextRelocs]_vars

(***************************************************************************)
(* The section cells written by the pretty symbol listing, with the        *)
(* section index each was built from.                                      *)
(***************************************************************************)
SymOfRow(l) == IF l.tag = "Syms rows" THEN syms[l.idx + 1] ELSE dynsyms[l.idx + 1]

SymRows == SelectSeq(out, LAMBDA l : l.tag \in {"Syms rows", "Dyn Syms rows"})

\* the section index row x of the listing was built from
RowShndx(x) == SymOfRow(SymRows[x]).st_shndx

SectionName(idx) == shdrs_at(section_headers, idx).sh_name

(***************************************************************************)
(* C7: the section cell is empty for index 0 whatever the section table    *)
(* (the empty table included), and is name(index) for every index with     *)
(* 0 < index < table length.                                               *)
(* Fails: with an empty section table index 0 is rendered BAD_IDX=0.       *)
(***************************************************************************)
C7_ZeroIsEmptyAndInRangeIsNamed ==
    pretty =>
        \A x \in 1..Len(SymRows) :
            /\ RowShndx(x) = 0 => SymRows[x].section = ""
            /\ (0 < RowShndx(x) /\ RowShndx(x) < shdrs_len(section_headers))
                   => SymRows[x].section
                        = SectionName(RowShndx(x)) \o "(" \o Decimal(RowShndx(x)) \o ")"

(***************************************************************************)
(* C8: the section cell is ABS whenever the index is 0xfff1, whatever the  *)
(* length of the section table.                                            *)
(* Fails: with more than 0xfff1 sections, index 0xfff1 is rendered as the  *)
(* name of section 0xfff1.                                                 *)
(***************************************************************************)
C8_SentinelIsAbs ==
    pretty =>
        \A x \in 1..Len(SymRows) :
            RowShndx(x) = SHN_ABS => SymRows[x].section = "ABS"

(***************************************************************************)
(* C9: the section cell is exactly BAD_IDX(index) for every index >= table *)
(* length other than 0xfff1.                                               *)
(* Fails: shndx_cell writes BAD_IDX=index, with an equals sign and no      *)
(* parentheses.                                                            *)
(***************************************************************************)
IsBadIdx(idx) == idx >= shdrs_len(section_headers) /\ idx # SHN_ABS

C9_BadIdxInParentheses ==
    pretty =>
        \A x \in 1..Len(SymRows) :
            IsBadIdx(RowShndx(x))
                => SymRows[x].section = "BAD_IDX(" \o Decimal(RowShndx(x)) \o ")"

RowsOf(tag) == SelectSeq(out, LAMBDA l : l.tag = tag)

(***************************************************************************)
(* What the report says, read back from the lines written: one report per  *)
(* offset line, holding the range lines that follow it.                    *)
(***************************************************************************)
IsRangeLine(l) == l.tag \in {"phdr", "shdr"}

\* the number of range lines at the head of ls
RECURSIVE LeadingRanges(_)
LeadingRanges(ls) ==
    IF ls # <<>> /\ IsRangeLine(ls[1]) THEN 1 + LeadingRanges(Tail(ls)) ELSE 0

RECURSIVE GroupReports(_)
GroupReports(ls) ==
    IF ls = <<>> THEN <<>>
    ELSE LET rest == Tail(ls)
             n == LeadingRanges(rest)
         IN  << [offset |-> ls[1].text, ranges |-> SubSeq(rest, 1, n)] >>
             \o GroupReports(SubSeq(rest, n + 1, Len(rest)))

Reports == GroupReports(SelectSeq(out, LAMBDA l : l.tag = "offset" \/ IsRangeLine(l)))

Elems(s) == {s[j] : j \in 1..Len(s)}

Finished == pc \in {"done", "panic"}

\* the pattern, when one is given
needle == search[1]

(***************************************************************************)
(* The specification's own notions, over the unbounded integers.           *)
(***************************************************************************)
\* h[o .. o+len(n)) = n
Occurs(h, n, o) == o + Len(n) <= Len(h) /\ SubSeq(h, o + 1, o + Len(n)) = n

\* file_offset <= o < file_offset + file_size
Contains(file_offset, file_size, o) == file_offset <= o /\ o < file_offset + file_size

PhdrContains(r, o) == Contains(phdrs[r].p_offset, phdrs[r].p_filesz, o)
ShdrContains(r, o) ==
    Contains(shdrs_at(section_headers, r - 1).sh_offset,
             shdrs_at(section_headers, r - 1).sh_size, o)

\* the ascending sequence of the members of a set of naturals
RECURSIVE Ascending(_)
Ascending(S) ==
    IF S = {} THEN <<>>
    ELSE LET lo == CHOOSE x \in S : \A y \in S : x <= y
         IN  <<lo>> \o Ascending(S \ {lo})

\* range (tag, index r-1) is among the lines of the j-th report
Reported(j, tag, r) ==
    /\ j <= Len(Reports)
    /\ \E l \in Elems(Reports[j].ranges) : l.tag = tag /\ l.idx = r - 1

(***************************************************************************)
(* C1: a program header or section header is reported for a match offset o *)
(* if and only if file_offset <= o < file_offset + file_size.              *)
(* Fails: a header whose file_offset + file_size passes the top of the     *)
(* word contains o but is not reported (wrapped end bound, or a panic).    *)
(***************************************************************************)
C1_ReportedIffContains ==
    (Finished /\ search # <<>>) =>
        \A j \in 1..Len(matches) :
            /\ \A r \in 1..Len(phdrs) :
                   Reported(j, "phdr", r) <=> PhdrContains(r, matches[j])
            /\ \A r \in 1..shdrs_len(section_headers) :
                   Reported(j, "shdr", r) <=> ShdrContains(r, matches[j])

(***************************************************************************)
(* C2: the address shown with a reported range is                          *)
(* virtual_address + (o - file_offset) of that range, with o >= file_offset*)
(* Fails: the sum is shown modulo the word size when it passes the top.    *)
(***************************************************************************)
RangeAddress(l, o) ==
    IF l.tag = "phdr"
    THEN LET h == phdrs[l.idx + 1] IN
         o >= h.p_offset /\ l.text = AltHex(h.p_vaddr + (o - h.p_offset))
    ELSE LET h == shdrs_at(section_headers, l.idx) IN
         o >= h.sh_offset /\ l.text = AltHex(h.sh_addr + (o - h.sh_offset))

C2_AddressIsVaddrPlusDisplacement ==
    \A j \in 1..Len(Reports) :
        \A l \in Elems(Reports[j].ranges) : RangeAddress(l, matches[j])

(***************************************************************************)
(* C3: a report lists all containing ranges, every containing program      *)
(* header before every containing section, each kind in increasing table   *)
(* index, none omitted or twice.                                           *)
(* Fails with C1: a containing range whose end bound overflows is omitted. *)
(***************************************************************************)
ExpectedRanges(o) ==
    [ x \in 1..Cardinality({r \in 1..Len(phdrs) : PhdrContains(r, o)}) |->
        <<"phdr", Ascending({r \in 1..Len(phdrs) : PhdrContains(r, o)})[x] - 1>> ]
    \o
    [ x \in 1..Cardinality({r \in 1..shdrs_len(section_headers) : ShdrContains(r, o)}) |->
        <<"shdr", Ascending({r \in 1..shdrs_len(section_headers) : ShdrContains(r, o)})[x] - 1>> ]

ReportedRanges(j) ==
    [ x \in 1..Len(Reports[j].ranges) |->
        <<Reports[j].ranges[x].tag, Reports[j].ranges[x].idx>> ]

C3_AllContainingRangesInOrder ==
    (Finished /\ search # <<>>) =>
        \A j \in 1..Len(matches) :
            j <= Len(Reports) /\ ReportedRanges(j) = ExpectedRanges(matches[j])

(***************************************************************************)
(* C4: for a non-empty pattern the search yields the strictly ascending    *)
(* list of exactly the offsets where the pattern occurs byte for byte;     *)
(* at every point of the scan the list holds the occurrences below i.      *)
(* Searching "aa" in "aaa" yields [0, 1].                                  *)
(***************************************************************************)
StrictlyAscending(s) == \A a, b \in 1..Len(s) : a < b => s[a] < s[b]

C4_SearchFindsExactlyTheOccurrences ==
    (pc # "search" /\ search # <<>> /\ needle # <<>>) =>
        /\ StrictlyAscending(matches)
        /\ \A o \in 0..Len(bytes) :
               (o \in Elems(matches)) <=> (o < i /\ Occurs(bytes, needle, o))
        /\ (bytes = <<97, 97, 97>> /\ needle = <<97, 97>> /\ i = Len(bytes))
               => matches = <<0, 1>>

C4_Witness ==
    /\ pc = "done"
    /\ bytes = <<97, 97, 97>>
    /\ search = << <<97, 97>> >>
    /\ matches = <<0, 1>>

(***************************************************************************)
(* C5: an empty search pattern is an input error: no match is recorded,    *)
(* no match line is written and the report does not complete normally.     *)
(* Fails: every offset of the file is recorded and reported as a match.    *)
(***************************************************************************)
C5_EmptyPatternIsAnError ==
    search = << <<>> >> =>
        /\ matches = <<>>
        /\ \A x \in 1..Len(out) : out[x].tag # "offset"
        /\ pc # "done"

(***************************************************************************)
(* C6: for a non-empty pattern the finished report has exactly one report  *)
(* per occurrence, in ascending offset order, and completes; a pattern     *)
(* that does not occur yields no report; a match that no range contains    *)
(* yields a report with an empty range list.                               *)
(* Fails: with overflow checks on, a header whose end bound or address     *)
(* overflows aborts the report, and the later matches are never reported.  *)
(***************************************************************************)
Occurrences == {o \in 0..Len(bytes) : Occurs(bytes, needle, o)}

C6_OneReportPerMatchAscending ==
    (Finished /\ search # <<>> /\ needle # <<>>) =>
        /\ pc = "done"
        /\ [ j \in 1..Len(Reports) |-> Reports[j].offset ]
             = [ j \in 1..Cardinality(Occurrences) |-> AltHex(Ascending(Occurrences)[j]) ]
        /\ \A j \in 1..Len(Reports) :
               ( /\ \A r \in 1..Len(phdrs) : ~PhdrContains(r, matches[j])
                 /\ \A r \in 1..shdrs_len(section_headers) : ~ShdrContains(r, matches[j]) )
               => Reports[j].ranges = <<>>

(***************************************************************************)
(* C10: rendering relocations never aborts: a relocation whose symbol      *)
(* index is outside the symbol table, a nameless section symbol whose      *)
(* section index is 0xfff1 or >= the table length, and a relocation        *)
(* section whose sh_info is no section index all leave the report running; *)
(* every relocation gets its line and the report reaches its next part.    *)
(* Fails: each of the three indexings panics.                              *)
(***************************************************************************)
RelocLines(rows) == Len(SelectSeq(out, LAMBDA l : l.tag = rows))

C10_RelocationsNeverAbort ==
    /\ pc # "panic"
    /\ pc = "Dynamic" =>
           /\ RelocLines("Dynamic Relas rows") = Len(dynrelas)
           /\ RelocLines("Dynamic Rel rows") = Len(dynrels)
           /\ RelocLines("Plt Relocations rows") = Len(pltrelocs)
           /\ RelocLines("Shdr Relocations rows") = num_shdr_relocs(shdr_relocs)

(***************************************************************************)
(* The relocation lines written, with the relocation and the symbol each   *)
(* was built from.  The lines of a listing are written in the order of its *)
(* relocations; "Shdr Relocations" lists the relocations of its sections   *)
(* one section after the other.                                            *)
(***************************************************************************)
RECURSIVE ShdrRelocsFlat(_)
ShdrRelocsFlat(pairs) ==
    IF pairs = <<>> THEN <<>> ELSE pairs[1].relocs \o ShdrRelocsFlat(Tail(pairs))

RelocRowTags ==
    {"Dynamic Relas rows", "Dynamic Rel rows", "Plt Relocations rows", "Shdr Relocations rows"}

RelocsOfRows(rows) ==
    CASE rows = "Dynamic Relas rows" -> dynrelas
      [] rows = "Dynamic Rel rows" -> dynrels
      [] rows = "Plt Relocations rows" -> pltrelocs
      [] rows = "Shdr Relocations rows" -> ShdrRelocsFlat(shdr_relocs)

SymsOfRows(rows) == IF rows = "Shdr Relocations rows" THEN syms ELSE dynsyms

StrtabOfRows(rows) == IF rows = "Shdr Relocations rows" THEN strtab ELSE dynstrtab

\* the relocation and the symbol of line x of a listing
RelocOfLine(rows, x) == RelocsOfRows(rows)[x]

SymOfLine(rows, x) == SymsOfRows(rows)[RelocOfLine(rows, x).r_sym + 1]

(***************************************************************************)
(* C11: the name on a relocation line is the symbol's own name when its    *)
(* name string is non-empty, the name of the section at its section index  *)
(* when the string is empty and the type is section, and ABS when the      *)
(* string is empty and the type is not section; a non-zero name offset     *)
(* whose string is empty is nameless.                                      *)
(* Fails: the code tests the name offset, not the string: a section symbol *)
(* with a non-zero offset of an empty string is shown with an empty name.  *)
(***************************************************************************)
ClaimedRelocName(sym, tab) ==
    LET s == strtab_get(tab, sym.st_name)[1] IN
    IF s # "" THEN s
    ELSE IF sym.st_type = STT_SECTION THEN SectionName(sym.st_shndx)
    ELSE "ABS"

C11_NameFollowsNameString ==
    \A rows \in RelocRowTags :
        \A x \in 1..Len(RowsOf(rows)) :
            RowsOf(rows)[x].text
                = ClaimedRelocName(SymOfLine(rows, x), StrtabOfRows(rows))
                      \o reloc_addend(RelocOfLine(rows, x).r_addend)

(***************************************************************************)
(* C12: the addend is written iff it is non-zero, as a suffix +offset      *)
(* after the name; a negative addend is written with a minus sign and its  *)
(* magnitude, never as its 64-bit two's complement.                        *)
(* Fails: addend -1 is written +0xffffffffffffffff.                        *)
(***************************************************************************)
ClaimedAddends(r_addend) ==
    IF r_addend = 0 THEN {""}
    ELSE IF r_addend > 0 THEN {"+" \o AltHex(r_addend)}
    ELSE {"-" \o AltHex(-r_addend), "+-" \o AltHex(-r_addend)}

C12_AddendSigned ==
    \A rows \in RelocRowTags :
        \A x \in 1..Len(RowsOf(rows)) :
            \E suffix \in ClaimedAddends(RelocOfLine(rows, x).r_addend) :
                RowsOf(rows)[x].text
                    = reloc_name(SymOfLine(rows, x), section_headers, StrtabOfRows(rows)).text
                          \o suffix

(***************************************************************************)
(* C13: in the symbol listing, pretty or plain, a symbol whose name string *)
(* is empty and whose type is section is shown with the name of the        *)
(* section at its section index, never with an empty name.                 *)
(* Fails: fmt_syms shows the name string as it is; it has no fall-back to  *)
(* the section name, and the name of such a symbol is empty.               *)
(***************************************************************************)
StrtabOfRow(l) == IF l.tag = "Syms rows" THEN strtab ELSE dynstrtab

IsNamelessSection(l) ==
    /\ strtab_get(StrtabOfRow(l), SymOfRow(l).st_name) = <<"">>
    /\ SymOfRow(l).st_type = STT_SECTION

C13_NamelessSectionShowsSectionName ==
    \A x \in 1..Len(SymRows) :
        IsNamelessSection(SymRows[x]) =>
            /\ SymRows[x].text # ""
            /\ RowShndx(x) < shdrs_len(section_headers)
                   => SymRows[x].text = SectionName(RowShndx(x))

(***************************************************************************)
(* C16: whatever the header values, the arithmetic of the correlation      *)
(* stays within the word: for every containment test evaluated the end     *)
(* bound file_offset + file_size is at most 2^w - 1, for every range       *)
(* reported the address (offset - file_offset) + vaddr is at most 2^w - 1, *)
(* and the computation never aborts.                                       *)
(* Fails: the sums are plain u64 additions of header fields; they wrap     *)
(* without overflow checks and panic with them.                            *)
(***************************************************************************)
\* the headers already tested against match m: all of them for a match that is done,
\* those before k for the match in hand
TestedPhdrs(m) ==
    IF m <= mi \/ (m = mi + 1 /\ pc = "shdrs") THEN 1..Len(phdrs)
    ELSE IF m = mi + 1 /\ pc = "phdrs" THEN 1..k
    ELSE {}

TestedShdrs(m) ==
    IF m <= mi THEN 1..shdrs_len(section_headers)
    ELSE IF m = mi + 1 /\ pc = "shdrs" THEN 1..k
    ELSE {}

\* the end bound is computed once offset >= file_offset, the address once offset is in range
StaysInWord(offset, file_offset, file_size, vaddr) ==
    offset >= file_offset =>
        /\ file_offset + file_size <= UMax
        /\ offset < file_offset + file_size => (offset - file_offset) + vaddr <= UMax

C16_ArithmeticStaysInWord ==
    /\ pc # "panic"
    /\ \A m \in 1..Len(matches) :
           /\ \A r \in TestedPhdrs(m) :
                  StaysInWord(matches[m], phdrs[r].p_offset, phdrs[r].p_filesz,
                              phdrs[r].p_vaddr)
           /\ \A r \in TestedShdrs(m) :
                  LET shdr == shdrs_at(section_headers, r - 1) IN
                  StaysInWord(matches[m], shdr.sh_offset, shdr.sh_size, shdr.sh_addr)

(***************************************************************************)
(* The "ProgramHeaders" part of Elf::fmt: a table row (pretty) or a line   *)
(* (plain) per program header, with the cells and fields that show         *)
(* p_offset, p_vaddr, p_paddr, p_filesz and p_memsz.  A cell is the text   *)
(* handed to Cell::new, a field of a line is the text formatted before     *)
(* colour and padding.                                                     *)
(***************************************************************************)
ProgramHeader(offset, vaddr, paddr, filesz, memsz) ==
    [p_offset |-> offset, p_vaddr |-> vaddr, p_paddr |-> paddr,
     p_filesz |-> filesz, p_memsz |-> memsz]

offsetx_cell(offset) == AltHex(offset) \o " "
addrx_cell(a) == AltHex(a) \o " "
memx_cell(maddr) == AltHex(maddr) \o " "
sz_cell(size) == AltHex(size) \o " "
memsz_cell(memsz) == AltHex(memsz) \o " "

\* fn off
fmt_off(n) == AltHex(n)
addrx(a) == AltHex(a)
sz(size) == AltHex(size)

PhdrRow(idx, offset, vaddr, paddr, filesz, memsz) ==
    [tag |-> "ProgramHeaders rows", idx |-> idx, p_offset |-> offset, p_vaddr |-> vaddr,
     p_paddr |-> paddr, p_filesz |-> filesz, p_memsz |-> memsz]

\* fmt_header(fmt, "ProgramHeaders", self.elf.program_headers.len())
PhdrsHeader ==
    /\ pc = "ProgramHeaders"
    /\ out' = Append(out, Line("header", Len(phdrs), "ProgramHeaders"))
    /\ pc' = "ProgramHeaders rows"
    /\ k' = 0
    /\ UNCHANGED <<inputs, g, i, matches, mi>>

\* one iteration of `for (i, phdr) in phdrs.into_iter().enumerate()`
PhdrsRow ==
    /\ pc = "ProgramHeaders rows"
    /\ k < Len(phdrs)
    /\ LET phdr == phdrs[k + 1] IN
         out' = Append(out,
                    IF pretty
                    THEN PhdrRow(k, offsetx_cell(phdr.p_offset), addrx_cell(phdr.p_vaddr),
                                 memx_cell(phdr.p_paddr), sz_cell(phdr.p_filesz),
                                 memsz_cell(phdr.p_filesz))
                    ELSE PhdrRow(k, fmt_off(phdr.p_offset), addrx(phdr.p_vaddr),
                                 addrx(phdr.p_paddr), sz(phdr.p_filesz),
                                 sz(phdr.p_memsz)))
    /\ k' = k + 1
    /\ UNCHANGED <<inputs, pc, g, i, matches, mi>>

\* the loop is over: the table is printed (pretty), then writeln!(fmt, "")
PhdrsEnd ==
    /\ pc = "ProgramHeaders rows"
    /\ k = Len(phdrs)
    /\ out' = Append(out, Line("blank", 0, ""))
    /\ pc' = "SectionHeaders"
    /\ UNCHANGED <<inputs, g, i, matches, mi, k>>

NextPhdrs ==
    \/ PhdrsHeader
    \/ PhdrsRow
    \/ PhdrsEnd

\* a loaded segment, one larger in memory than in the file, one without file bytes,
\* one with the largest address and size
ProgramHeaderShapes ==
    { ProgramHeader(0, 1, 1, 2, 2), ProgramHeader(0, 1, 2, 2, 3),
      ProgramHeader(1, 2, 2, 0, 1), ProgramHeader(1, UMax, 0, 1, UMax) }

InitPhdrs ==
    /\ bytes = <<>>
    /\ search = <<>>
    /\ overflow_checks = FALSE
    /\ phdrs \in SeqsUpTo(ProgramHeaderShapes, MaxPhdrs)
    /\ section_headers = <<>>
    /\ pretty \in BOOLEAN
    /\ syms = <<>>
    /\ dynsyms = <<>>
    /\ strtab = <<>>
    /\ dynstrtab = <<>>
    /\ NoRelocs
    /\ pc = "ProgramHeaders"
    /\ NoMach
    /\ NoIsize
    /\ NoEndOffset
    /\ InitLocals

SpecPhdrs == InitPhdrs /\ [][NextPhdrs]_vars

(***************************************************************************)
(* C17: for every program header the pretty row and the plain line show    *)
(* the same fields: Offset, Vaddr, Paddr, Filesz and Memsz are p_offset,   *)
(* p_vaddr, p_paddr, p_filesz and p_memsz, also when p_memsz differs from  *)
(* p_filesz.                                                               *)
(* Fails: the Memsz cell of the pretty row is built from p_filesz.         *)
(***************************************************************************)
PhdrRows == RowsOf("ProgramHeaders rows")

C17_PrettyShowsTheFieldsOfPlain ==
    \A x \in 1..Len(PhdrRows) :
        LET phdr == phdrs[x]
            row == PhdrRows[x]
        IN  /\ row.idx = x - 1
            /\ row.p_offset = IF pretty THEN offsetx_cell(phdr.p_offset)
                                        ELSE fmt_off(phdr.p_offset)
            /\ row.p_vaddr = IF pretty THEN addrx_cell(phdr.p_vaddr) ELSE addrx(phdr.p_vaddr)
            /\ row.p_paddr = IF pretty THEN memx_cell(phdr.p_paddr) ELSE addrx(phdr.p_paddr)
            /\ row.p_filesz = IF pretty THEN sz_cell(phdr.p_filesz) ELSE sz(phdr.p_filesz)
            /\ row.p_memsz = IF pretty THEN memsz_cell(phdr.p_memsz) ELSE sz(phdr.p_memsz)

(***************************************************************************)
(* Mach-O.  A Result of goblin is kept as a sequence: <<v>> is Ok(v) and   *)
(* <<>> is Err.  A parsed binary (mach::MachO) is its load commands, its   *)
(* segments (each with the Result of name() and of sections(), a section   *)
(* with the Result of its name()), the Results of exports() and imports()  *)
(* and its libs, whose entry 0 is the binary itself.                       *)
(***************************************************************************)
Section(name) == [name |-> name]

Segment(name, sections) == [name |-> name, sections |-> sections]

Mach(load_commands, segments, exports, imports, libs) ==
    [load_commands |-> load_commands, segments |-> segments, exports |-> exports,
     imports |-> imports, libs |-> libs]

\* multi.get(i): Ok(binary) or Err(err)
Extracted(binary) == [ok |-> TRUE, binary |-> <<binary>>, err |-> ""]

ExtractionFailed(err) == [ok |-> FALSE, binary |-> <<>>, err |-> err]

\* the binary MachO::fmt is rendering: architecture i of the file
mach == arches[i + 1].binary[1]

\* `for i in 0..multi.narches { match multi.get(i) { .. } }`: Ok starts the report of
\* the binary, Err prints the error and goes on with the next architecture
FatArch ==
    /\ pc = "arches"
    /\ i < Len(arches)
    /\ IF arches[i + 1].ok
       THEN /\ pc' = "Mach-o"
            /\ UNCHANGED <<i, out>>
       ELSE /\ out' = Append(out, Line("error", i, arches[i + 1].err))
            /\ i' = i + 1
            /\ UNCHANGED pc
    /\ UNCHANGED <<inputs, g, matches, mi, k>>

\* the loop is over: run returns Ok(())
FatEnd ==
    /\ pc = "arches"
    /\ i = Len(arches)
    /\ pc' = "done"
    /\ UNCHANGED <<inputs, g, i, matches, mi, k, out>>

\* MachO::fmt up to the load commands: the title line, a blank line,
\* fmt_header(fmt, "LoadCommands", mach.load_commands.len())
MachOTitle ==
    /\ pc = "Mach-o"
    /\ out' = out \o << Line("Mach-o", i, ""), Line("blank", 0, ""),
                        Line("header", Len(mach.load_commands), "LoadCommands") >>
    /\ pc' = "LoadCommands rows"
    /\ k' = 0
    /\ UNCHANGED <<inputs, g, i, matches, mi>>

\* one iteration of `for (i, lc) in lcs.into_iter().enumerate()`
LoadCommandsRow ==
    /\ pc = "LoadCommands rows"
    /\ k < Len(mach.load_commands)
    /\ out' = Append(out, Line("LoadCommands rows", k, mach.load_commands[k + 1]))
    /\ k' = k + 1
    /\ UNCHANGED <<inputs, pc, g, i, matches, mi>>

\* the loop is over: a blank line, fmt_header(fmt, "Segments", segments.len())
LoadCommandsEnd ==
    /\ pc = "LoadCommands rows"
    /\ k = Len(mach.load_commands)
    /\ out' = out \o << Line("blank", 0, ""),
                        Line("header", Len(mach.segments), "Segments") >>
    /\ pc' = "Segments rows"
    /\ g' = 0
    /\ UNCHANGED <<inputs, i, matches, mi, k>>

\* one iteration of `for (ref i, ref segment) in segments.into_iter().enumerate()`, up
\* to the loop of fmt_sections: the index is written, then segment.name().unwrap() and
\* segment.sections().unwrap() panic on Err, else the line goes on with name(len)
SegmentsRow ==
    /\ pc = "Segments rows"
    /\ g < Len(mach.segments)
    /\ LET segment == mach.segments[g + 1] IN
         IF segment.name = <<>> \/ segment.sections = <<>>
         THEN /\ out' = Append(out, Line("segment index", g, ""))
              /\ pc' = "panic"
              /\ UNCHANGED k
         ELSE /\ out' = Append(out, Line("Segments rows", g,
                                         segment.name[1] \o "("
                                             \o Decimal(Len(segment.sections[1])) \o ")"))
              /\ pc' = "sections"
              /\ k' = 0
    /\ UNCHANGED <<inputs, g, i, matches, mi>>

\* fmt_section: the line of a section, or of a section whose name() is Err
fmt_section(section) ==
    IF section.name # <<>> THEN section.name[1] ELSE "BAD SECTION NAME"

\* one iteration of the loop of fmt_sections
SectionsRow ==
    /\ pc = "sections"
    /\ LET sections == mach.segments[g + 1].sections[1] IN
         /\ k < Len(sections)
         /\ out' = Append(out, Line("sections", k, fmt_section(sections[k + 1])))
    /\ k' = k + 1
    /\ UNCHANGED <<inputs, pc, g, i, matches, mi>>

\* fmt_sections returns: the next segment
SectionsEnd ==
    /\ pc = "sections"
    /\ k = Len(mach.segments[g + 1].sections[1])
    /\ pc' = "Segments rows"
    /\ g' = g + 1
    /\ UNCHANGED <<inputs, i, matches, mi, k, out>>

\* match mach.exports() { Ok(exports) => exports, Err(_) => Vec::new() }, and imports
unwrap_or_empty(result) == IF result = <<>> THEN <<>> ELSE result[1]

\* the loop over the segments is over: a blank line, then fmt_exports' header
SegmentsEnd ==
    /\ pc = "Segments rows"
    /\ g = Len(mach.segments)
    /\ out' = out \o << Line("blank", 0, ""),
                        Line("header", Len(unwrap_or_empty(mach.exports)), "Exports") >>
    /\ pc' = "Exports rows"
    /\ k' = 0
    /\ UNCHANGED <<inputs, g, i, matches, mi>>

\* a row of "Exports" or "Imports"
ExportsRow(rows, symbols) ==
    /\ pc = rows
    /\ k < Len(symbols)
    /\ out' = Append(out, Line(rows, k, symbols[k + 1]))
    /\ k' = k + 1
    /\ UNCHANGED <<inputs, pc, g, i, matches, mi>>

MachExportsRow == ExportsRow("Exports rows", unwrap_or_empty(mach.exports))

\* fmt_exports returns: fmt_header(fmt, "Imports", imports.len())
MachExportsEnd ==
    /\ pc = "Exports rows"
    /\ k = Len(unwrap_or_empty(mach.exports))
    /\ out' = out \o << Line("blank", 0, ""),
                        Line("header", Len(unwrap_or_empty(mach.imports)), "Imports") >>
    /\ pc' = "Imports rows"
    /\ k' = 0
    /\ UNCHANGED <<inputs, g, i, matches, mi>>

MachImportsRow == ExportsRow("Imports rows", unwrap_or_empty(mach.imports))

\* the imports are listed: a blank line, fmt_header(fmt, "Libraries", mach.libs.len()),
\* then &mach.libs[1..], which panics on an empty Vec
MachImportsEnd ==
    /\ pc = "Imports rows"
    /\ k = Len(unwrap_or_empty(mach.imports))
    /\ out' = out \o << Line("blank", 0, ""), Line("header", Len(mach.libs), "Libraries") >>
    /\ pc' = IF Len(mach.libs) >= 1 THEN "Libraries rows" ELSE "panic"
    /\ k' = 1
    /\ UNCHANGED <<inputs, g, i, matches, mi>>

\* one iteration of `for lib in &mach.libs[1..]`
LibrariesRow ==
    /\ pc = "Libraries rows"
    /\ k < Len(mach.libs)
    /\ out' = Append(out, Line("Libraries rows", k, mach.libs[k + 1]))
    /\ k' = k + 1
    /\ UNCHANGED <<inputs, pc, g, i, matches, mi>>

\* the rest of MachO::fmt: a blank line and the lines Name .. entry; it returns Ok(())
\* and the loop of run goes on with the next architecture
LibrariesEnd ==
    /\ pc = "Libraries rows"
    /\ k = Len(mach.libs)
    /\ out' = out \o << Line("blank", 0, ""), Line("Name", i, "") >>
    /\ pc' = "arches"
    /\ i' = i + 1
    /\ UNCHANGED <<inputs, g, matches, mi, k>>

NextMach ==
    \/ FatArch
    \/ FatEnd
    \/ MachOTitle
    \/ LoadCommandsRow
    \/ LoadCommandsEnd
    \/ SegmentsRow
    \/ SectionsRow
    \/ SectionsEnd
    \/ SegmentsEnd
    \/ MachExportsRow
    \/ MachExportsEnd
    \/ MachImportsRow
    \/ MachImportsEnd
    \/ LibrariesRow
    \/ LibrariesEnd

\* a segment with one section, one with a section whose name is unreadable, one whose
\* own name is unreadable, one whose sections are unreadable, one without sections
SegmentShapes ==
    { Segment(<<"__TEXT">>, << << Section(<<"__text">>) >> >>),
      Segment(<<"__DATA">>, << << Section(<<>>), Section(<<"__data">>) >> >>),
      Segment(<<>>, << << Section(<<"__text">>) >> >>),
      Segment(<<"__LINKEDIT">>, <<>>),
      Segment(<<"__PAGEZERO">>, << <<>> >>) }

\* a binary with nothing but its segments, and one with a load command, an export,
\* an import and a library
MachShapes ==
    UNION { { Mach(<<>>, segments, <<>>, <<>>, <<"self">>),
              Mach(<<"LC_SEGMENT_64">>, segments, << <<"_main">> >>, << <<"_puts">> >>,
                   <<"self", "libSystem">>) } :
            segments \in SeqsUpTo(SegmentShapes, MaxSegments) }

\* a run on a Mach-O file: no ELF tables
NoElf ==
    /\ bytes = <<>>
    /\ phdrs = <<>>
    /\ section_headers = <<>>
    /\ overflow_checks = FALSE
    /\ NoSymbols

\* Every binary, as the only architecture of the file, without and with a pattern.
InitMachO ==
    /\ NoElf
    /\ search \in {<<>>, << <<97>> >>}
    /\ arches \in { << Extracted(binary) >> : binary \in MachShapes }
    /\ pc = "arches"
    /\ NoIsize
    /\ NoEndOffset
    /\ InitLocals

SpecMachO == InitMachO /\ [][NextMach]_vars

\* the results of multi.get(i): an error, and binaries that render or not
ArchShapes ==
    { ExtractionFailed("bad arch"),
      Extracted(Mach(<<>>, <<>>, <<>>, <<>>, <<"self">>)),
      Extracted(Mach(<<"LC_SEGMENT_64">>,
                     << Segment(<<"__TEXT">>, << << Section(<<"__text">>) >> >>) >>,
                     << <<"_main">> >>, << <<"_puts">> >>, <<"self", "libSystem">>)),
      Extracted(Mach(<<>>, << Segment(<<>>, << <<>> >>) >>, <<>>, <<>>, <<"self">>)) }

\* Every fat file of up to MaxArches architectures.
InitFat ==
    /\ NoElf
    /\ search = <<>>
    /\ arches \in SeqsUpTo(ArchShapes, MaxArches)
    /\ pc = "arches"
    /\ NoIsize
    /\ NoEndOffset
    /\ InitLocals

SpecFat == InitFat /\ [][NextMach]_vars

(***************************************************************************)
(* The segment and section lines of the report of the file's first         *)
(* architecture, with the segment and the section each was built from.     *)
(***************************************************************************)
FirstBinary == arches[1].binary[1]

\* the segment index shown by the last segment line before line x
SegmentOfLine(x) ==
    LET before == {y \in 1..x : out[y].tag = "Segments rows"}
        last == CHOOSE y \in before : \A z \in before : z <= y
    IN  out[last].idx

SectionOfLine(x) == FirstBinary.segments[SegmentOfLine(x) + 1].sections[1][out[x].idx + 1]

(***************************************************************************)
(* C14: a segment whose name or section list cannot be decoded, and a      *)
(* section whose name cannot be decoded, is rendered with the placeholder  *)
(* <unreadable>; the report does not abort and every segment and section   *)
(* gets its line.                                                          *)
(* Fails: segment.name().unwrap() and segment.sections().unwrap() panic,   *)
(* and a section without a name is rendered BAD SECTION NAME.              *)
(***************************************************************************)
C14_UnreadableIsAPlaceholder ==
    /\ pc # "panic"
    /\ \A x \in 1..Len(out) :
           /\ out[x].tag = "Segments rows" =>
                  LET segment == FirstBinary.segments[out[x].idx + 1] IN
                  (segment.name = <<>> /\ segment.sections # <<>>) =>
                      out[x].text = "<unreadable>(" \o Decimal(Len(segment.sections[1]))
                                        \o ")"
           /\ out[x].tag = "sections" =>
                  (SectionOfLine(x).name = <<>> => out[x].text = "<unreadable>")
    /\ pc = "done" => Len(RowsOf("Segments rows")) = Len(FirstBinary.segments)

(***************************************************************************)
(* C15: a finished report has a match section exactly when a search        *)
(* pattern was supplied, for a Mach-O file as for an ELF file.             *)
(* Fails: MachO::fmt never looks at opt.search; the report of a Mach-O     *)
(* file has no match section whatever the pattern.                         *)
(***************************************************************************)
HasMatchSection == \E x \in 1..Len(out) : out[x].tag = "matches_for"

C15_MatchSectionIffPattern == pc = "done" => (HasMatchSection <=> search # <<>>)

(***************************************************************************)
(* C18: the architectures of a fat file are processed in index order and   *)
(* each produces exactly one output, its report when multi.get(i) is Ok    *)
(* and the error message when it is Err; nothing stops the loop before the *)
(* last architecture, and run returns Ok(()).                              *)
(* Fails: a binary that is extracted but has a segment whose name or       *)
(* section list cannot be decoded panics inside its report (C14); the      *)
(* report is cut short and the later architectures are never processed.    *)
(***************************************************************************)
\* the first line of each output: the title of a report, or an error message
ArchOutputs == SelectSeq(out, LAMBDA l : l.tag \in {"Mach-o", "error"})

\* the last line of each report
ReportEnds == RowsOf("Name")

Extractions == {a \in 1..Len(arches) : arches[a].ok}

C18_EveryArchitectureHasItsOutput ==
    /\ pc # "panic"
    /\ \A x \in 1..Len(ArchOutputs) :
           /\ ArchOutputs[x].idx = x - 1
           /\ ArchOutputs[x].tag = IF arches[x].ok THEN "Mach-o" ELSE "error"
           /\ ~arches[x].ok => ArchOutputs[x].text = arches[x].err
    /\ \A x \in 1..Len(ReportEnds) : arches[ReportEnds[x].idx + 1].ok
    /\ Len(ArchOutputs) \in {i, i + 1}
    /\ pc = "done" =>
           /\ Len(ArchOutputs) = Len(arches)
           /\ Len(ReportEnds) = Cardinality(Extractions)

====
